---- MODULE Spec2Model ----
(***************************************************************************)
(* Provider adapters of nkxiaochuan/amplifier: DeepSeekProvider,           *)
(* DoubaoProvider and QwenProvider.  The three source files are the same   *)
(* text up to the vendor constants, so the adapter is modelled once and    *)
(* is parameterised by the vendor's constants.                             *)
(*                                                                         *)
(* Python values are tagged records, one field per value:                  *)
(*   None -> [null |-> TRUE]      str  -> [str |-> "..."]                  *)
(*   int/float -> [num |-> n]     bool -> [bool |-> b]                     *)
(*   list -> [list |-> <<...>>]   dict -> [obj |-> [key |-> value, ...]]   *)
(* A dict's keys are the DOMAIN of its obj field, so an absent key and a   *)
(* key holding None are different things, as they are in Python and JSON.  *)
(* Floats are written in tenths (temperature 0.7 is [num |-> 7]).          *)
(***************************************************************************)
EXTENDS Integers, Sequences, FiniteSets, TLC

VARIABLES
    adapter,   \* the provider instance: its fields, or NoAdapter
    ctor,      \* the construction attempt: its arguments, os.environ, its outcome
    calls,     \* each invocation of complete: its position, locals and outcome
    posts      \* the HTTP POSTs each invocation has issued, in order

vars == <<adapter, ctor, calls, posts>>

----------------------------------------------------------------------------
(* Python values *)

PyNone == [null |-> TRUE]

PyStr(s) == [str |-> s]

PyNum(n) == [num |-> n]

PyList(s) == [list |-> s]

PyDict(f) == [obj |-> f]

EmptyDict == PyDict([k \in {} |-> PyNone])

EmptyList == PyList(<<>>)

IsNone(v) == "null" \in DOMAIN v

IsStr(v) == "str" \in DOMAIN v

IsList(v) == "list" \in DOMAIN v

IsDict(v) == "obj" \in DOMAIN v

\* Python truth value testing, as used by `if x:`, `not x` and `x or y`.
Truthy(v) ==
    CASE IsNone(v) -> FALSE
      [] IsStr(v) -> v.str /= ""
      [] "num" \in DOMAIN v -> v.num /= 0
      [] "bool" \in DOMAIN v -> v.bool
      [] IsList(v) -> Len(v.list) > 0
      [] IsDict(v) -> DOMAIN v.obj /= {}

\* dict.get(key, default) on a dict d.
DictGet(d, key, default) ==
    IF key \in DOMAIN d.obj THEN d.obj[key] ELSE default

\* The outcome of an expression or a call: a value, or a raised exception.
Ok(v) == [ok |-> v]

Raise(e) == [raised |-> e]

IsRaised(r) == "raised" \in DOMAIN r

Restrict(f, S) == [k \in S |-> f[k]]

----------------------------------------------------------------------------
(* Vendor constants *)

DeepSeek ==
    [ name |-> "deepseek", display |-> "DeepSeek",
      env_var |-> "DEEPSEEK_API_KEY",
      base_url |-> "https://api.deepseek.com/v1",
      default_model |-> "deepseek-chat" ]

Doubao ==
    [ name |-> "doubao", display |-> "Doubao",
      env_var |-> "DOUBAO_API_KEY",
      base_url |-> "https://ark.cn-beijing.volces.com/api/v3",
      default_model |-> "doubao-1.5-pro-128k" ]

Qwen ==
    [ name |-> "qwen", display |-> "Qwen",
      env_var |-> "QWEN_API_KEY",
      base_url |-> "https://api.tongyi.ai/v1",
      default_model |-> "qwen2.5-7b-instruct" ]

Vendors == {DeepSeek, Doubao, Qwen}

EnvVars == {v.env_var : v \in Vendors}

----------------------------------------------------------------------------
(* Construction: __init__ and _get_api_key *)

\* GetApiKey with the precedence turned round: the environment first.
GetApiKeyEnvironFirst(vendor, config, environ) ==
    LET cfg_key == DictGet(config, "api_key", PyNone)
        env_key == IF vendor.env_var \in DOMAIN environ
                   THEN PyStr(environ[vendor.env_var]) ELSE PyNone
    IN  IF Truthy(env_key) THEN Ok(env_key)
        ELSE IF Truthy(cfg_key) THEN Ok(cfg_key)
        ELSE Raise([ type |-> "ValueError", vendor |-> vendor.display,
                     what |-> "API key not found in config or environment variable",
                     variable |-> vendor.env_var ])

\* _get_api_key: the config value when truthy, else the environment
\* variable when truthy, else ValueError naming the variable.
\* environ is os.environ: a mapping whose DOMAIN is the variables that are set.
GetApiKey(vendor, config, environ) ==
    LET cfg_key == DictGet(config, "api_key", PyNone)
        env_key == IF vendor.env_var \in DOMAIN environ
                   THEN PyStr(environ[vendor.env_var]) ELSE PyNone
    IN  IF Truthy(cfg_key) THEN Ok(cfg_key)
        ELSE IF Truthy(env_key) THEN Ok(env_key)
        ELSE Raise([ type |-> "ValueError", vendor |-> vendor.display,
                     what |-> "API key not found in config or environment variable",
                     variable |-> vendor.env_var ])

\* __init__: the instance, or the exception that leaves no instance.
NewAdapter(vendor, config, environ) ==
    LET key == GetApiKey(vendor, config, environ)
    IN  IF IsRaised(key) THEN key
        ELSE Ok([ built |-> TRUE,
                  vendor |-> vendor,
                  config |-> config,
                  api_key |-> key.ok,
                  base_url |-> DictGet(config, "base_url", PyStr(vendor.base_url)),
                  default_model |-> DictGet(config, "default_model",
                                            PyStr(vendor.default_model)),
                  name |-> vendor.name ])

NoAdapter == [built |-> FALSE]

NoCtor == [attempted |-> FALSE]

----------------------------------------------------------------------------
(* complete, up to the HTTP call: resolution and payload *)

\* ResolveModel with the request's model taking precedence over the override.
ResolveModelRequestFirst(self, request, kwargs) ==
    IF Truthy(request.model) THEN request.model
    ELSE DictGet(kwargs, "model", self.default_model)

\* model = kwargs.get("model", request.model or self.default_model)
ResolveModel(self, request, kwargs) ==
    DictGet(kwargs, "model",
            IF Truthy(request.model) THEN request.model ELSE self.default_model)

\* ResolveTemperature with a numeric default substituted for None.
ResolveTemperatureDefaulted(request, kwargs) ==
    LET t == DictGet(kwargs, "temperature", request.temperature)
    IN  IF IsNone(t) THEN PyNum(7) ELSE t

\* temperature = kwargs.get("temperature", request.temperature)
ResolveTemperature(request, kwargs) ==
    DictGet(kwargs, "temperature", request.temperature)

\* max_tokens = kwargs.get("max_tokens", request.max_tokens)
ResolveMaxTokens(request, kwargs) ==
    DictGet(kwargs, "max_tokens", request.max_tokens)

\* The loop over request.messages: one {"role", "content"} dict per message.
ConvertMessages(messages) ==
    PyList([ i \in 1..Len(messages.list) |->
             PyDict([ role |-> messages.list[i].role,
                      content |-> messages.list[i].content ]) ])

\* The vendor tools: None unless request.tools is truthy, else one
\* {"type": "function", "function": {...}} dict per tool, in order.
ConvertTools(tools) ==
    IF Truthy(tools)
    THEN PyList([ i \in 1..Len(tools.list) |->
                  PyDict([ type |-> PyStr("function"),
                           function |-> PyDict([ name |-> tools.list[i].name,
                                                 description |-> tools.list[i].description,
                                                 parameters |-> tools.list[i].parameters ]) ]) ])
    ELSE PyNone

\* BuildPayload with the tools key set whatever vendor_tools is.
BuildPayloadAlwaysTools(model, vendor_messages, temperature, max_tokens, vendor_tools) ==
    PyDict([ model |-> model,
             messages |-> vendor_messages,
             temperature |-> temperature,
             max_tokens |-> max_tokens,
             tools |-> vendor_tools ])

\* payload = {...}; if vendor_tools: payload["tools"] = vendor_tools
BuildPayload(model, vendor_messages, temperature, max_tokens, vendor_tools) ==
    LET base == [ model |-> model,
                  messages |-> vendor_messages,
                  temperature |-> temperature,
                  max_tokens |-> max_tokens ]
    IN  IF Truthy(vendor_tools)
        THEN PyDict(base @@ ("tools" :> vendor_tools))
        ELSE PyDict(base)

\* The request handed to client.post: URL, headers, JSON body, timeout.
TIMEOUT == 30

PostRequest(self, payload) ==
    [ url |-> <<self.base_url, "/chat/completions">>,
      headers |-> [ Authorization |-> <<"Bearer ", self.api_key>>,
                    ContentType |-> "application/json" ],
      json |-> payload,
      timeout |-> TIMEOUT ]

----------------------------------------------------------------------------
(* complete, after the HTTP call: status check and decoding *)

HTTP_OK == 200

\* The argument strings of the model and what json.loads makes of each.
\* JsonDocuments maps every model string that is a JSON document to its
\* value; the strings of NotJson are no JSON documents.
JsonDocuments ==
    ( "{}" :> EmptyDict
      @@ "{\"city\": \"Paris\"}" :> PyDict([city |-> PyStr("Paris")])
      @@ "[1, 2]" :> PyList(<<PyNum(1), PyNum(2)>>)
      @@ "null" :> PyNone
      @@ "\"x\"" :> PyStr("x") )

NotJson == {"{invalid", ""}

\* json.loads(s): TypeError unless s is a str; JSONDecodeError when the
\* string is no JSON document; the document's value otherwise.
JsonLoads(s) ==
    IF ~IsStr(s) THEN Raise([type |-> "TypeError"])
    ELSE IF s.str \in DOMAIN JsonDocuments THEN Ok(JsonDocuments[s.str])
    ELSE Raise([type |-> "JSONDecodeError"])

\* ParseArguments without the except clause.
ParseArgumentsUncaught(function_args) == JsonLoads(function_args)

\* The `try: args = json.loads(function_args) except json.JSONDecodeError:
\* args = {}` statement: only JSONDecodeError is caught.
ParseArguments(function_args) ==
    LET r == JsonLoads(function_args)
    IN  IF IsRaised(r) /\ r.raised.type = "JSONDecodeError" THEN Ok(EmptyDict)
        ELSE r

\* The body of the loop over tool_calls, for one wire entry.
ConvertToolCall(tool_call) ==
    IF ~IsDict(tool_call) THEN Raise([type |-> "AttributeError"])
    ELSE
      LET tool_call_id == DictGet(tool_call, "id", PyNone)
          tool_call_type == DictGet(tool_call, "type", PyNone)
          function == DictGet(tool_call, "function", EmptyDict)
      IN  IF ~IsDict(function) THEN Raise([type |-> "AttributeError"])
          ELSE
            LET function_name == DictGet(function, "name", PyNone)
                function_args == DictGet(function, "arguments", PyStr("{}"))
                args == ParseArguments(function_args)
            IN  IF IsRaised(args) THEN args
                ELSE Ok([ id |-> tool_call_id,
                          type |-> tool_call_type,
                          function |-> PyDict([ name |-> function_name,
                                                arguments |-> args.ok ]) ])

\* ConvertToolCallsFrom inserting at the front instead of appending.
RECURSIVE ConvertToolCallsReversed(_, _)
ConvertToolCallsReversed(entries, tool_calls_list) ==
    IF entries = <<>> THEN Ok(PyList(tool_calls_list))
    ELSE LET r == ConvertToolCall(Head(entries))
         IN  IF IsRaised(r) THEN r
             ELSE ConvertToolCallsReversed(Tail(entries), <<r.ok>> \o tool_calls_list)

\* The loop over tool_calls: the first entry that raises ends it.
RECURSIVE ConvertToolCallsFrom(_, _)
ConvertToolCallsFrom(entries, tool_calls_list) ==
    IF entries = <<>> THEN Ok(PyList(tool_calls_list))
    ELSE LET r == ConvertToolCall(Head(entries))
         IN  IF IsRaised(r) THEN r
             ELSE ConvertToolCallsFrom(Tail(entries), Append(tool_calls_list, r.ok))

\* `for tool_call in tool_calls`: a list is walked, an empty dict or str
\* yields nothing, None (or a number) is not iterable.
ConvertToolCalls(tool_calls) ==
    IF IsList(tool_calls) THEN ConvertToolCallsFrom(tool_calls.list, <<>>)
    ELSE IF (IsDict(tool_calls) \/ IsStr(tool_calls)) /\ ~Truthy(tool_calls)
         THEN Ok(EmptyList)
    ELSE IF IsDict(tool_calls) \/ IsStr(tool_calls)
         THEN Raise([type |-> "AttributeError"])
    ELSE Raise([type |-> "TypeError"])

\* response.json(): the body parsed, or JSONDecodeError when it is no JSON.
ResponseJson(body) ==
    IF "json" \in DOMAIN body THEN Ok(body.json)
    ELSE Raise([type |-> "JSONDecodeError"])

\* choices[0] on a truthy value.
FirstChoice(choices) ==
    IF IsList(choices) THEN Ok(choices.list[1])
    ELSE IF IsDict(choices) THEN Raise([type |-> "KeyError"])
    ELSE IF IsStr(choices) THEN Ok(PyStr("<first character>"))
    ELSE Raise([type |-> "TypeError"])

\* From `choice = choices[0]` to `return chat_response`.
BuildChatResponse(model, response_data, choice) ==
    IF ~IsDict(choice) THEN Raise([type |-> "AttributeError"])
    ELSE
      LET message == DictGet(choice, "message", EmptyDict)
      IN  IF ~IsDict(message) THEN Raise([type |-> "AttributeError"])
          ELSE
            LET role == DictGet(message, "role", PyStr("assistant"))
                content == DictGet(message, "content", PyStr(""))
                tool_calls == DictGet(message, "tool_calls", EmptyList)
                converted == ConvertToolCalls(tool_calls)
            IN  IF IsRaised(converted) THEN converted
                ELSE Ok([ id |-> DictGet(response_data, "id", PyStr("")),
                          model |-> model,
                          role |-> role,
                          content |-> content,
                          tool_calls |-> converted.ok,
                          usage |-> DictGet(response_data, "usage", EmptyDict) ])

\* ParseResponse answering zero choices with an empty response.
ParseResponseEmptyAllowed(self, model, body) ==
    LET parsed == ResponseJson(body)
    IN  IF IsRaised(parsed) THEN parsed
        ELSE IF ~IsDict(parsed.ok) THEN Raise([type |-> "AttributeError"])
        ELSE
          LET response_data == parsed.ok
              choices == DictGet(response_data, "choices", EmptyList)
          IN  IF ~Truthy(choices)
              THEN BuildChatResponse(model, response_data, EmptyDict)
              ELSE LET choice == FirstChoice(choices)
                   IN  IF IsRaised(choice) THEN choice
                       ELSE BuildChatResponse(model, response_data, choice.ok)

\* From `response_data = response.json()` to the end of complete.
ParseResponse(self, model, body) ==
    LET parsed == ResponseJson(body)
    IN  IF IsRaised(parsed) THEN parsed
        ELSE IF ~IsDict(parsed.ok) THEN Raise([type |-> "AttributeError"])
        ELSE
          LET response_data == parsed.ok
              choices == DictGet(response_data, "choices", EmptyList)
          IN  IF ~Truthy(choices)
              THEN Raise([ type |-> "Exception", vendor |-> self.vendor.display,
                           what |-> "API returned no choices" ])
              ELSE LET choice == FirstChoice(choices)
                   IN  IF IsRaised(choice) THEN choice
                       ELSE BuildChatResponse(model, response_data, choice.ok)

\* CheckStatus raising without the response text.
CheckStatusWithoutText(self, status_code, body) ==
    IF status_code /= HTTP_OK
    THEN Raise([ type |-> "Exception", vendor |-> self.vendor.display,
                 what |-> "API error", status_code |-> status_code ])
    ELSE Ok(PyNone)

\* CheckStatus letting every 2xx status through.
CheckStatusAnySuccess(self, status_code, body) ==
    IF status_code \notin 200..299
    THEN Raise([ type |-> "Exception", vendor |-> self.vendor.display,
                 what |-> "API error", status_code |-> status_code,
                 text |-> body ])
    ELSE Ok(PyNone)

\* The status check: anything but 200 raises with the status and the text.
CheckStatus(self, status_code, body) ==
    IF status_code /= HTTP_OK
    THEN Raise([ type |-> "Exception", vendor |-> self.vendor.display,
                 what |-> "API error", status_code |-> status_code,
                 text |-> body ])
    ELSE Ok(PyNone)

\* complete from the return of client.post on: what complete returns or raises.
HandleResponse(self, model, status_code, body) ==
    LET checked == CheckStatus(self, status_code, body)
    IN  IF IsRaised(checked) THEN checked
        ELSE ParseResponse(self, model, body)

\* parse_tool_calls: the response's tool calls.
ParseToolCalls(response) == response.tool_calls

\* complete from its first line to the call of client.post: the resolved
\* model, the payload and the request handed to client.post.
PreparePost(self, request, kwargs) ==
    LET model == ResolveModel(self, request, kwargs)
        temperature == ResolveTemperature(request, kwargs)
        max_tokens == ResolveMaxTokens(request, kwargs)
        vendor_messages == ConvertMessages(request.messages)
        vendor_tools == ConvertTools(request.tools)
        payload == BuildPayload(model, vendor_messages, temperature,
                                max_tokens, vendor_tools)
    IN  [ model |-> model, payload |-> payload,
          post |-> PostRequest(self, payload) ]

----------------------------------------------------------------------------
(* DoubaoProvider.complete and parse_tool_calls, from the doubao source file *)

\* model = kwargs.get("model", request.model or self.default_model)
DoubaoResolveModel(self, request, kwargs) ==
    DictGet(kwargs, "model",
            IF Truthy(request.model) THEN request.model ELSE self.default_model)

\* temperature = kwargs.get("temperature", request.temperature)
DoubaoResolveTemperature(request, kwargs) ==
    DictGet(kwargs, "temperature", request.temperature)

\* max_tokens = kwargs.get("max_tokens", request.max_tokens)
DoubaoResolveMaxTokens(request, kwargs) ==
    DictGet(kwargs, "max_tokens", request.max_tokens)

\* The loop over request.messages: one {"role", "content"} dict per message.
DoubaoConvertMessages(messages) ==
    PyList([ i \in 1..Len(messages.list) |->
             PyDict([ role |-> messages.list[i].role,
                      content |-> messages.list[i].content ]) ])

\* The doubao tools: None unless request.tools is truthy, else one
\* {"type": "function", "function": {...}} dict per tool, in order.
DoubaoConvertTools(tools) ==
    IF Truthy(tools)
    THEN PyList([ i \in 1..Len(tools.list) |->
                  PyDict([ type |-> PyStr("function"),
                           function |-> PyDict([ name |-> tools.list[i].name,
                                                 description |-> tools.list[i].description,
                                                 parameters |-> tools.list[i].parameters ]) ]) ])
    ELSE PyNone

\* payload = {...}; if doubao_tools: payload["tools"] = doubao_tools
DoubaoBuildPayload(model, doubao_messages, temperature, max_tokens, doubao_tools) ==
    LET base == [ model |-> model,
                  messages |-> doubao_messages,
                  temperature |-> temperature,
                  max_tokens |-> max_tokens ]
    IN  IF Truthy(doubao_tools)
        THEN PyDict(base @@ ("tools" :> doubao_tools))
        ELSE PyDict(base)

DoubaoPostRequest(self, payload) ==
    [ url |-> <<self.base_url, "/chat/completions">>,
      headers |-> [ Authorization |-> <<"Bearer ", self.api_key>>,
                    ContentType |-> "application/json" ],
      json |-> payload,
      timeout |-> TIMEOUT ]

\* The `try: args = json.loads(function_args) except json.JSONDecodeError:
\* args = {}` statement: only JSONDecodeError is caught.
DoubaoParseArguments(function_args) ==
    LET r == JsonLoads(function_args)
    IN  IF IsRaised(r) /\ r.raised.type = "JSONDecodeError" THEN Ok(EmptyDict)
        ELSE r

\* The body of the loop over tool_calls, for one wire entry.
DoubaoConvertToolCall(tool_call) ==
    IF ~IsDict(tool_call) THEN Raise([type |-> "AttributeError"])
    ELSE
      LET tool_call_id == DictGet(tool_call, "id", PyNone)
          tool_call_type == DictGet(tool_call, "type", PyNone)
          function == DictGet(tool_call, "function", EmptyDict)
      IN  IF ~IsDict(function) THEN Raise([type |-> "AttributeError"])
          ELSE
            LET function_name == DictGet(function, "name", PyNone)
                function_args == DictGet(function, "arguments", PyStr("{}"))
                args == DoubaoParseArguments(function_args)
            IN  IF IsRaised(args) THEN args
                ELSE Ok([ id |-> tool_call_id,
                          type |-> tool_call_type,
                          function |-> PyDict([ name |-> function_name,
                                                arguments |-> args.ok ]) ])

\* The loop over tool_calls: the first entry that raises ends it.
RECURSIVE DoubaoConvertToolCallsFrom(_, _)
DoubaoConvertToolCallsFrom(entries, tool_calls_list) ==
    IF entries = <<>> THEN Ok(PyList(tool_calls_list))
    ELSE LET r == DoubaoConvertToolCall(Head(entries))
         IN  IF IsRaised(r) THEN r
             ELSE DoubaoConvertToolCallsFrom(Tail(entries), Append(tool_calls_list, r.ok))

\* `for tool_call in tool_calls`: a list is walked, an empty dict or str
\* yields nothing, None (or a number) is not iterable.
DoubaoConvertToolCalls(tool_calls) ==
    IF IsList(tool_calls) THEN DoubaoConvertToolCallsFrom(tool_calls.list, <<>>)
    ELSE IF (IsDict(tool_calls) \/ IsStr(tool_calls)) /\ ~Truthy(tool_calls)
         THEN Ok(EmptyList)
    ELSE IF IsDict(tool_calls) \/ IsStr(tool_calls)
         THEN Raise([type |-> "AttributeError"])
    ELSE Raise([type |-> "TypeError"])

\* choices[0] on a truthy value.
DoubaoFirstChoice(choices) ==
    IF IsList(choices) THEN Ok(choices.list[1])
    ELSE IF IsDict(choices) THEN Raise([type |-> "KeyError"])
    ELSE IF IsStr(choices) THEN Ok(PyStr("<first character>"))
    ELSE Raise([type |-> "TypeError"])

\* From `choice = choices[0]` to `return chat_response`.
DoubaoBuildChatResponse(model, response_data, choice) ==
    IF ~IsDict(choice) THEN Raise([type |-> "AttributeError"])
    ELSE
      LET message == DictGet(choice, "message", EmptyDict)
      IN  IF ~IsDict(message) THEN Raise([type |-> "AttributeError"])
          ELSE
            LET role == DictGet(message, "role", PyStr("assistant"))
                content == DictGet(message, "content", PyStr(""))
                tool_calls == DictGet(message, "tool_calls", EmptyList)
                converted == DoubaoConvertToolCalls(tool_calls)
            IN  IF IsRaised(converted) THEN converted
                ELSE Ok([ id |-> DictGet(response_data, "id", PyStr("")),
                          model |-> model,
                          role |-> role,
                          content |-> content,
                          tool_calls |-> converted.ok,
                          usage |-> DictGet(response_data, "usage", EmptyDict) ])

\* From `response_data = response.json()` to the end of complete.
DoubaoParseResponse(self, model, body) ==
    LET parsed == ResponseJson(body)
    IN  IF IsRaised(parsed) THEN parsed
        ELSE IF ~IsDict(parsed.ok) THEN Raise([type |-> "AttributeError"])
        ELSE
          LET response_data == parsed.ok
              choices == DictGet(response_data, "choices", EmptyList)
          IN  IF ~Truthy(choices)
              THEN Raise([ type |-> "Exception", vendor |-> "Doubao",
                           what |-> "API returned no choices" ])
              ELSE LET choice == DoubaoFirstChoice(choices)
                   IN  IF IsRaised(choice) THEN choice
                       ELSE DoubaoBuildChatResponse(model, response_data, choice.ok)

\* The status check: anything but 200 raises with the status and the text.
DoubaoCheckStatus(self, status_code, body) ==
    IF status_code /= HTTP_OK
    THEN Raise([ type |-> "Exception", vendor |-> "Doubao",
                 what |-> "API error", status_code |-> status_code,
                 text |-> body ])
    ELSE Ok(PyNone)

\* complete from the return of client.post on: what complete returns or raises.
DoubaoHandleResponse(self, model, status_code, body) ==
    LET checked == DoubaoCheckStatus(self, status_code, body)
    IN  IF IsRaised(checked) THEN checked
        ELSE DoubaoParseResponse(self, model, body)

\* parse_tool_calls: the response's tool calls.
DoubaoParseToolCalls(response) == response.tool_calls

\* complete from its first line to the call of client.post: the resolved
\* model, the payload and the request handed to client.post.
DoubaoPreparePost(self, request, kwargs) ==
    LET model == DoubaoResolveModel(self, request, kwargs)
        temperature == DoubaoResolveTemperature(request, kwargs)
        max_tokens == DoubaoResolveMaxTokens(request, kwargs)
        doubao_messages == DoubaoConvertMessages(request.messages)
        doubao_tools == DoubaoConvertTools(request.tools)
        payload == DoubaoBuildPayload(model, doubao_messages, temperature,
                                      max_tokens, doubao_tools)
    IN  [ model |-> model, payload |-> payload,
          post |-> DoubaoPostRequest(self, payload) ]

----------------------------------------------------------------------------
(* QwenProvider.complete and parse_tool_calls, from the qwen source file *)

\* model = kwargs.get("model", request.model or self.default_model)
QwenResolveModel(self, request, kwargs) ==
    DictGet(kwargs, "model",
            IF Truthy(request.model) THEN request.model ELSE self.default_model)

\* temperature = kwargs.get("temperature", request.temperature)
QwenResolveTemperature(request, kwargs) ==
    DictGet(kwargs, "temperature", request.temperature)

\* max_tokens = kwargs.get("max_tokens", request.max_tokens)
QwenResolveMaxTokens(request, kwargs) ==
    DictGet(kwargs, "max_tokens", request.max_tokens)

\* The loop over request.messages: one {"role", "content"} dict per message.
QwenConvertMessages(messages) ==
    PyList([ i \in 1..Len(messages.list) |->
             PyDict([ role |-> messages.list[i].role,
                      content |-> messages.list[i].content ]) ])

\* The qwen tools: None unless request.tools is truthy, else one
\* {"type": "function", "function": {...}} dict per tool, in order.
QwenConvertTools(tools) ==
    IF Truthy(tools)
    THEN PyList([ i \in 1..Len(tools.list) |->
                  PyDict([ type |-> PyStr("function"),
                           function |-> PyDict([ name |-> tools.list[i].name,
                                                 description |-> tools.list[i].description,
                                                 parameters |-> tools.list[i].parameters ]) ]) ])
    ELSE PyNone

\* payload = {...}; if qwen_tools: payload["tools"] = qwen_tools
QwenBuildPayload(model, qwen_messages, temperature, max_tokens, qwen_tools) ==
    LET base == [ model |-> model,
                  messages |-> qwen_messages,
                  temperature |-> temperature,
                  max_tokens |-> max_tokens ]
    IN  IF Truthy(qwen_tools)
        THEN PyDict(base @@ ("tools" :> qwen_tools))
        ELSE PyDict(base)

QwenPostRequest(self, payload) ==
    [ url |-> <<self.base_url, "/chat/completions">>,
      headers |-> [ Authorization |-> <<"Bearer ", self.api_key>>,
                    ContentType |-> "application/json" ],
      json |-> payload,
      timeout |-> TIMEOUT ]

\* The `try: args = json.loads(function_args) except json.JSONDecodeError:
\* args = {}` statement: only JSONDecodeError is caught.
QwenParseArguments(function_args) ==
    LET r == JsonLoads(function_args)
    IN  IF IsRaised(r) /\ r.raised.type = "JSONDecodeError" THEN Ok(EmptyDict)
        ELSE r

\* The body of the loop over tool_calls, for one wire entry.
QwenConvertToolCall(tool_call) ==
    IF ~IsDict(tool_call) THEN Raise([type |-> "AttributeError"])
    ELSE
      LET tool_call_id == DictGet(tool_call, "id", PyNone)
          tool_call_type == DictGet(tool_call, "type", PyNone)
          function == DictGet(tool_call, "function", EmptyDict)
      IN  IF ~IsDict(function) THEN Raise([type |-> "AttributeError"])
          ELSE
            LET function_name == DictGet(function, "name", PyNone)
                function_args == DictGet(function, "arguments", PyStr("{}"))
                args == QwenParseArguments(function_args)
            IN  IF IsRaised(args) THEN args
                ELSE Ok([ id |-> tool_call_id,
                          type |-> tool_call_type,
                          function |-> PyDict([ name |-> function_name,
                                                arguments |-> args.ok ]) ])

\* The loop over tool_calls: the first entry that raises ends it.
RECURSIVE QwenConvertToolCallsFrom(_, _)
QwenConvertToolCallsFrom(entries, tool_calls_list) ==
    IF entries = <<>> THEN Ok(PyList(tool_calls_list))
    ELSE LET r == QwenConvertToolCall(Head(entries))
         IN  IF IsRaised(r) THEN r
             ELSE QwenConvertToolCallsFrom(Tail(entries), Append(tool_calls_list, r.ok))

\* `for tool_call in tool_calls`: a list is walked, an empty dict or str
\* yields nothing, None (or a number) is not iterable.
QwenConvertToolCalls(tool_calls) ==
    IF IsList(tool_calls) THEN QwenConvertToolCallsFrom(tool_calls.list, <<>>)
    ELSE IF (IsDict(tool_calls) \/ IsStr(tool_calls)) /\ ~Truthy(tool_calls)
         THEN Ok(EmptyList)
    ELSE IF IsDict(tool_calls) \/ IsStr(tool_calls)
         THEN Raise([type |-> "AttributeError"])
    ELSE Raise([type |-> "TypeError"])

\* choices[0] on a truthy value.
QwenFirstChoice(choices) ==
    IF IsList(choices) THEN Ok(choices.list[1])
    ELSE IF IsDict(choices) THEN Raise([type |-> "KeyError"])
    ELSE IF IsStr(choices) THEN Ok(PyStr("<first character>"))
    ELSE Raise([type |-> "TypeError"])

\* From `choice = choices[0]` to `return chat_response`.
QwenBuildChatResponse(model, response_data, choice) ==
    IF ~IsDict(choice) THEN Raise([type |-> "AttributeError"])
    ELSE
      LET message == DictGet(choice, "message", EmptyDict)
      IN  IF ~IsDict(message) THEN Raise([type |-> "AttributeError"])
          ELSE
            LET role == DictGet(message, "role", PyStr("assistant"))
                content == DictGet(message, "content", PyStr(""))
                tool_calls == DictGet(message, "tool_calls", EmptyList)
                converted == QwenConvertToolCalls(tool_calls)
            IN  IF IsRaised(converted) THEN converted
                ELSE Ok([ id |-> DictGet(response_data, "id", PyStr("")),
                          model |-> model,
                          role |-> role,
                          content |-> content,
                          tool_calls |-> converted.ok,
                          usage |-> DictGet(response_data, "usage", EmptyDict) ])

\* From `response_data = response.json()` to the end of complete.
QwenParseResponse(self, model, body) ==
    LET parsed == ResponseJson(body)
    IN  IF IsRaised(parsed) THEN parsed
        ELSE IF ~IsDict(parsed.ok) THEN Raise([type |-> "AttributeError"])
        ELSE
          LET response_data == parsed.ok
              choices == DictGet(response_data, "choices", EmptyList)
          IN  IF ~Truthy(choices)
              THEN Raise([ type |-> "Exception", vendor |-> "Qwen",
                           what |-> "API returned no choices" ])
              ELSE LET choice == QwenFirstChoice(choices)
                   IN  IF IsRaised(choice) THEN choice
                       ELSE QwenBuildChatResponse(model, response_data, choice.ok)

\* The status check: anything but 200 raises with the status and the text.
QwenCheckStatus(self, status_code, body) ==
    IF status_code /= HTTP_OK
    THEN Raise([ type |-> "Exception", vendor |-> "Qwen",
                 what |-> "API error", status_code |-> status_code,
                 text |-> body ])
    ELSE Ok(PyNone)

\* complete from the return of client.post on: what complete returns or raises.
QwenHandleResponse(self, model, status_code, body) ==
    LET checked == QwenCheckStatus(self, status_code, body)
    IN  IF IsRaised(checked) THEN checked
        ELSE QwenParseResponse(self, model, body)

\* parse_tool_calls: the response's tool calls.
QwenParseToolCalls(response) == response.tool_calls

\* complete from its first line to the call of client.post: the resolved
\* model, the payload and the request handed to client.post.
QwenPreparePost(self, request, kwargs) ==
    LET model == QwenResolveModel(self, request, kwargs)
        temperature == QwenResolveTemperature(request, kwargs)
        max_tokens == QwenResolveMaxTokens(request, kwargs)
        qwen_messages == QwenConvertMessages(request.messages)
        qwen_tools == QwenConvertTools(request.tools)
        payload == QwenBuildPayload(model, qwen_messages, temperature,
                                    max_tokens, qwen_tools)
    IN  [ model |-> model, payload |-> payload,
          post |-> QwenPostRequest(self, payload) ]

----------------------------------------------------------------------------
(* The provider class of an instance decides which complete runs *)

ProviderPreparePost(self, request, kwargs) ==
    CASE self.name = "deepseek" -> PreparePost(self, request, kwargs)
      [] self.name = "doubao" -> DoubaoPreparePost(self, request, kwargs)
      [] self.name = "qwen" -> QwenPreparePost(self, request, kwargs)

ProviderHandleResponse(self, model, status_code, body) ==
    CASE self.name = "deepseek" -> HandleResponse(self, model, status_code, body)
      [] self.name = "doubao" -> DoubaoHandleResponse(self, model, status_code, body)
      [] self.name = "qwen" -> QwenHandleResponse(self, model, status_code, body)

ProviderParseToolCalls(self, response) ==
    CASE self.name = "deepseek" -> ParseToolCalls(response)
      [] self.name = "doubao" -> DoubaoParseToolCalls(response)
      [] self.name = "qwen" -> QwenParseToolCalls(response)

----------------------------------------------------------------------------
(* Bounds and the inputs drawn within them *)

MaxCalls == 2

MaxMessages == 2

MaxTools == 2

MaxToolCalls == 2

CallIds == 1..MaxCalls

SeqsUpTo(S, n) == UNION {[1..k -> S] : k \in 0..n}

\* Configuration mappings: every key present or absent, api_key possibly "".
Configs ==
    { PyDict(Restrict(full, S)) :
        full \in [ api_key : {PyStr(""), PyStr("sk-config")},
                   base_url : {PyStr("https://proxy.example/v1")},
                   default_model : {PyStr("configured-model")} ],
        S \in SUBSET {"api_key", "base_url", "default_model"} }

\* os.environ: each credential variable unset, set to "" or set to a key
\* that names the variable it came from.
EnvSecret ==
    ( "DEEPSEEK_API_KEY" :> "sk-env-deepseek"
      @@ "DOUBAO_API_KEY" :> "sk-env-doubao"
      @@ "QWEN_API_KEY" :> "sk-env-qwen" )

Environs ==
    { [ v \in S |-> IF v \in E THEN "" ELSE EnvSecret[v] ] :
        S \in SUBSET EnvVars, E \in SUBSET EnvVars }

NoEnviron == [v \in {} |-> ""]

KeyConfig == PyDict([api_key |-> PyStr("sk-config")])

\* Messages and tools of a ChatRequest.
UserMessage == [role |-> PyStr("user"), content |-> PyStr("2+2?")]

SystemMessage == [role |-> PyStr("system"), content |-> PyStr("Be brief.")]

WeatherTool ==
    [ name |-> PyStr("get_weather"),
      description |-> PyStr("Weather of a city"),
      parameters |-> PyDict([type |-> PyStr("object")]) ]

TimeTool ==
    [ name |-> PyStr("get_time"),
      description |-> PyStr("Current time"),
      parameters |-> PyDict([type |-> PyStr("object")]) ]

MessageLists == {PyList(s) : s \in SeqsUpTo({UserMessage, SystemMessage}, MaxMessages)}

ToolLists == {PyNone} \cup {PyList(s) : s \in SeqsUpTo({WeatherTool, TimeTool}, MaxTools)}

PlainRequest ==
    [ model |-> PyNone, messages |-> PyList(<<UserMessage>>), tools |-> PyNone,
      temperature |-> PyNone, max_tokens |-> PyNone ]

\* The requests of the payload claims: every combination of model, tools,
\* temperature and max_tokens, and every message list.
Requests ==
    [ model : {PyNone, PyStr(""), PyStr("request-model")},
      messages : {PyList(<<UserMessage>>)},
      tools : ToolLists,
      temperature : {PyNone, PyNum(7)},
      max_tokens : {PyNone, PyNum(256)} ]
    \cup { [PlainRequest EXCEPT !.messages = m] : m \in MessageLists }

\* The keyword overrides: each key absent or given; model may be given as None.
KwargsSet ==
    { PyDict(Restrict(full, S)) :
        full \in [ model : {PyStr("override-model"), PyNone},
                   temperature : {PyNum(2)},
                   max_tokens : {PyNum(64)} ],
        S \in SUBSET {"model", "temperature", "max_tokens"} }

NoKwargs == EmptyDict

SmallRequests ==
    { PlainRequest,
      [PlainRequest EXCEPT !.model = PyStr("request-model"),
                           !.tools = PyList(<<WeatherTool>>)] }

SmallKwargs == {NoKwargs, PyDict([model |-> PyStr("override-model")])}

\* Wire replies.  A body is [json |-> value] when its text is a JSON
\* document and [text |-> "..."] when it is not.  A dict is written with
\* Fields, which leaves out the keys whose value is Absent.
Absent == [absent |-> TRUE]

Field(key, v) == IF v = Absent THEN [k \in {} |-> PyNone] ELSE (key :> v)

\* The values a vendor can put in function.arguments: strings that are
\* JSON documents, strings that are not, and values that are no strings.
ArgumentStrings == {PyStr(s) : s \in (DOMAIN JsonDocuments) \cup NotJson}

ArgumentValues ==
    ArgumentStrings \cup {Absent, PyNone, PyDict([city |-> PyStr("Paris")])}

WireToolCall(id, type, function) ==
    PyDict(Field("id", id) @@ Field("type", type) @@ Field("function", function))

WireFunction(name, arguments) ==
    PyDict(Field("name", name) @@ Field("arguments", arguments))

WeatherCalls ==
    { WireToolCall(PyStr("call_1"), PyStr("function"),
                   WireFunction(PyStr("get_weather"), a)) : a \in ArgumentValues }

TimeCalls ==
    { WireToolCall(PyStr("call_2"), PyStr("function"),
                   WireFunction(PyStr("get_time"), a)) :
        a \in {PyStr("{}"), PyStr("{invalid")} }

OddCalls ==
    { WireToolCall(Absent, Absent, WireFunction(Absent, PyStr("{}"))),
      WireToolCall(PyStr("call_3"), PyStr("function"), Absent),
      WireToolCall(PyStr("call_4"), PyStr("function"), PyNone),
      PyStr("call_5") }

WireToolCalls == WeatherCalls \cup TimeCalls \cup OddCalls

ToolCallLists == {PyList(s) : s \in SeqsUpTo(WireToolCalls, MaxToolCalls)}

Contents == {Absent, PyNone, PyStr(""), PyStr("4")}

WireMessage(role, content, tool_calls) ==
    PyDict(Field("role", role) @@ Field("content", content)
           @@ Field("tool_calls", tool_calls))

WireChoice(message) == PyDict(Field("message", message))

WireReply(id, model, choices, usage) ==
    [ json |-> PyDict(Field("id", id) @@ Field("model", model)
                      @@ Field("choices", choices) @@ Field("usage", usage)) ]

WireUsage == PyDict([total_tokens |-> PyNum(9)])

GoodCall ==
    WireToolCall(PyStr("call_1"), PyStr("function"),
                 WireFunction(PyStr("get_weather"), PyStr("{\"city\": \"Paris\"}")))

\* Replies that vary the tool calls and the content beside them.
ToolCallBodies ==
    { WireReply(PyStr("x1"), Absent,
                PyList(<<WireChoice(WireMessage(PyStr("assistant"), c, t))>>),
                WireUsage) :
        c \in Contents, t \in {Absent, PyNone} \cup ToolCallLists }

\* Replies that vary the envelope: id, model, usage, role, content.
EnvelopeBodies ==
    { WireReply(i, m, PyList(<<WireChoice(WireMessage(r, c, t))>>), u) :
        i \in {Absent, PyNone, PyStr("x1")},
        m \in {Absent, PyStr("wire-model")},
        u \in {Absent, PyNone, WireUsage},
        r \in {Absent, PyNone, PyStr("assistant")},
        c \in Contents,
        t \in {Absent, PyList(<<GoodCall>>)} }

\* Replies that vary choices, the first choice and its message.
ChoicesBodies ==
    { WireReply(PyStr("x1"), Absent, ch, WireUsage) :
        ch \in { Absent, PyNone, EmptyList, EmptyDict,
                 PyList(<<WireChoice(WireMessage(PyStr("assistant"), PyStr("first"), Absent)),
                          WireChoice(WireMessage(PyStr("assistant"), PyStr("second"), Absent))>>),
                 PyList(<<WireChoice(Absent)>>),
                 PyList(<<WireChoice(PyNone)>>),
                 PyList(<<PyNone>>),
                 PyDict([message |-> PyStr("not a list")]) } }

\* Bodies that are no JSON object.
OtherBodies ==
    { [text |-> "<html>Bad Gateway</html>"], [json |-> EmptyList], [json |-> PyNone] }

Bodies == ToolCallBodies \cup EnvelopeBodies \cup ChoicesBodies \cup OtherBodies

SimpleBody ==
    WireReply(PyStr("x1"), PyStr("wire-model"),
              PyList(<<WireChoice(WireMessage(PyStr("assistant"), PyStr("4"), Absent))>>),
              Absent)

EmptyChoicesBody == WireReply(PyStr("x2"), Absent, EmptyList, Absent)

ErrorBody == [text |-> "{\"error\": \"rate limited\"}"]

SmallBodies == {SimpleBody, EmptyChoicesBody, ErrorBody}

Statuses == {200, 201, 204, 400, 401, 429, 500}

TransportErrors == {"ConnectError", "ReadTimeout"}

----------------------------------------------------------------------------
(* The state machine *)

IdleCall == [pc |-> "idle"]

\* DeepSeekProvider(config) / DoubaoProvider(config) / QwenProvider(config),
\* with os.environ as it is at that moment.  One instance per behaviour.
Construct(vendor, config, environ) ==
    /\ ~ctor.attempted
    /\ LET r == NewAdapter(vendor, config, environ)
       IN  /\ adapter' = IF IsRaised(r) THEN NoAdapter ELSE r.ok
           /\ ctor' = [ attempted |-> TRUE, vendor |-> vendor, config |-> config,
                        environ |-> environ,
                        outcome |-> IF IsRaised(r) THEN r ELSE Ok(PyNone) ]
    /\ UNCHANGED <<calls, posts>>

\* Invoke keeping the resolved model on the instance, as a provider that
\* stored per-call state in self would.
InvokeStoringModel(c, request, kwargs) ==
    /\ adapter.built
    /\ calls[c].pc = "idle"
    /\ LET prepared == ProviderPreparePost(adapter, request, kwargs)
       IN  /\ calls' = [calls EXCEPT ![c] =
                          [ pc |-> "awaiting", request |-> request,
                            kwargs |-> kwargs, model |-> prepared.model,
                            payload |-> prepared.payload ]]
           /\ posts' = [posts EXCEPT ![c] = Append(@, prepared.post)]
           /\ adapter' = [adapter EXCEPT !.default_model = prepared.model]
    /\ UNCHANGED ctor

\* complete(request, **kwargs) from its first line to `await client.post`:
\* the locals are resolved, the payload is built and the POST is issued.
Invoke(c, request, kwargs) ==
    /\ adapter.built
    /\ calls[c].pc = "idle"
    /\ LET prepared == ProviderPreparePost(adapter, request, kwargs)
       IN  /\ calls' = [calls EXCEPT ![c] =
                          [ pc |-> "awaiting", request |-> request,
                            kwargs |-> kwargs, model |-> prepared.model,
                            payload |-> prepared.payload ]]
           /\ posts' = [posts EXCEPT ![c] = Append(@, prepared.post)]
    /\ UNCHANGED <<adapter, ctor>>

\* Respond with one retry of the POST after a status other than 200.
RespondRetrying(c, status_code, body) ==
    /\ calls[c].pc = "awaiting"
    /\ calls' = [calls EXCEPT ![c] =
                   [ pc |-> "done", request |-> calls[c].request,
                     kwargs |-> calls[c].kwargs, model |-> calls[c].model,
                     payload |-> calls[c].payload,
                     response |-> [status_code |-> status_code, body |-> body],
                     outcome |-> ProviderHandleResponse(adapter, calls[c].model,
                                                        status_code, body) ]]
    /\ posts' = [posts EXCEPT ![c] =
                   IF status_code /= HTTP_OK
                   THEN Append(@, PostRequest(adapter, calls[c].payload)) ELSE @]
    /\ UNCHANGED <<adapter, ctor>>

\* client.post returns a response: the rest of complete runs to its
\* return or its raise.
Respond(c, status_code, body) ==
    /\ calls[c].pc = "awaiting"
    /\ calls' = [calls EXCEPT ![c] =
                   [ pc |-> "done", request |-> calls[c].request,
                     kwargs |-> calls[c].kwargs, model |-> calls[c].model,
                     payload |-> calls[c].payload,
                     response |-> [status_code |-> status_code, body |-> body],
                     outcome |-> ProviderHandleResponse(adapter, calls[c].model,
                                                        status_code, body) ]]
    /\ UNCHANGED <<adapter, ctor, posts>>

\* client.post raises (no connection, timeout): the exception leaves
\* complete, which catches nothing.
TransportFail(c, error) ==
    /\ calls[c].pc = "awaiting"
    /\ calls' = [calls EXCEPT ![c] =
                   [ pc |-> "done", request |-> calls[c].request,
                     kwargs |-> calls[c].kwargs, model |-> calls[c].model,
                     payload |-> calls[c].payload,
                     response |-> [failed |-> error],
                     outcome |-> Raise([type |-> error]) ]]
    /\ UNCHANGED <<adapter, ctor, posts>>

NoCalls == [c \in CallIds |-> IdleCall]

NoPosts == [c \in CallIds |-> <<>>]

\* The adapter life cycle: construction, then invocations of complete that
\* overlap at their HTTP await.
Init ==
    /\ adapter = NoAdapter
    /\ ctor = NoCtor
    /\ calls = NoCalls
    /\ posts = NoPosts

Next ==
    \/ \E vendor \in Vendors, config \in {KeyConfig, EmptyDict} :
         Construct(vendor, config, NoEnviron)
    \/ \E c \in CallIds, request \in SmallRequests, kwargs \in SmallKwargs :
         Invoke(c, request, kwargs)
    \/ \E c \in CallIds, status_code \in {200, 500}, body \in {SimpleBody, ErrorBody} :
         Respond(c, status_code, body)
    \/ \E c \in CallIds, error \in TransportErrors :
         TransportFail(c, error)

Spec == Init /\ [][Next]_vars

\* Construction over every configuration and environment, followed by one call.
NextConstruct ==
    \/ \E vendor \in Vendors, config \in Configs, environ \in Environs :
         Construct(vendor, config, environ)
    \/ Invoke(1, PlainRequest, NoKwargs)
    \/ \E status_code \in {200, 500} : Respond(1, status_code, SimpleBody)

SpecConstruct == Init /\ [][NextConstruct]_vars

\* A built adapter of each vendor, as construction leaves it.
Built(vendor, config, environ) ==
    /\ adapter = NewAdapter(vendor, config, environ).ok
    /\ ctor = [ attempted |-> TRUE, vendor |-> vendor, config |-> config,
                environ |-> environ, outcome |-> Ok(PyNone) ]
    /\ calls = NoCalls
    /\ posts = NoPosts

\* The payload: one call over every request and every override.
InitEncode ==
    \E vendor \in Vendors,
       config \in {KeyConfig, PyDict([ api_key |-> PyStr("sk-config"),
                                       default_model |-> PyStr("configured-model") ])} :
        Built(vendor, config, NoEnviron)

NextEncode ==
    \/ \E request \in Requests, kwargs \in KwargsSet : Invoke(1, request, kwargs)
    \/ \E status_code \in {200, 500}, body \in {SimpleBody, ErrorBody} :
         Respond(1, status_code, body)

SpecEncode == InitEncode /\ [][NextEncode]_vars

\* The decoding: one call over every wire reply.
InitDecode == \E vendor \in Vendors : Built(vendor, KeyConfig, NoEnviron)

NextDecode ==
    \/ Invoke(1, PlainRequest, NoKwargs)
    \/ \E body \in Bodies : Respond(1, HTTP_OK, body)
    \/ \E status_code \in Statuses, body \in SmallBodies : Respond(1, status_code, body)

SpecDecode == InitDecode /\ [][NextDecode]_vars

----------------------------------------------------------------------------
(* What the properties read from a call *)

Started(c) == calls[c].pc /= "idle"

\* The call got an HTTP response (of any status) and has ended.
Answered(c) == calls[c].pc = "done" /\ "status_code" \in DOMAIN calls[c].response

\* The call ended by returning a ChatResponse.
Returned(c) == calls[c].pc = "done" /\ ~IsRaised(calls[c].outcome)

ChatResponseOf(c) == calls[c].outcome.ok

StatusOf(c) == calls[c].response.status_code

BodyOf(c) == calls[c].response.body

IsJsonObject(body) == "json" \in DOMAIN body /\ IsDict(body.json)

\* choices[0].message of a reply whose first choice is a dict (an absent
\* message reads as the empty dict).
HasFirstChoice(body) ==
    /\ IsJsonObject(body)
    /\ "choices" \in DOMAIN body.json.obj
    /\ IsList(body.json.obj.choices)
    /\ Len(body.json.obj.choices.list) > 0
    /\ IsDict(body.json.obj.choices.list[1])

MessageOf(body) == DictGet(body.json.obj.choices.list[1], "message", EmptyDict)

\* The reply carries a list under choices[0].message.tool_calls.
HasToolCallList(body) ==
    /\ HasFirstChoice(body)
    /\ "message" \in DOMAIN body.json.obj.choices.list[1].obj
    /\ IsDict(MessageOf(body))
    /\ "tool_calls" \in DOMAIN MessageOf(body).obj
    /\ IsList(MessageOf(body).obj.tool_calls)

EntriesOf(body) == MessageOf(body).obj.tool_calls.list

----------------------------------------------------------------------------
(* Decoding: C1 - C5, under SpecDecode *)

NoChoices(body) ==
    /\ IsJsonObject(body)
    /\ \/ "choices" \notin DOMAIN body.json.obj
       \/ body.json.obj.choices = EmptyList

\* C1: a reply with a success status whose choices is the empty sequence,
\* or absent, makes complete raise and return no ChatResponse; with status
\* 200 the error is the vendor's "API returned no choices".
C1_EmptyChoicesFails ==
    \A c \in CallIds :
        (Answered(c) /\ StatusOf(c) \in 200..299 /\ NoChoices(BodyOf(c)))
        => /\ IsRaised(calls[c].outcome)
           /\ ~Returned(c)
           /\ StatusOf(c) = HTTP_OK =>
                calls[c].outcome.raised =
                    [ type |-> "Exception", vendor |-> adapter.vendor.display,
                      what |-> "API returned no choices" ]

C1_Witness ==
    \E c \in CallIds :
        /\ Answered(c) /\ StatusOf(c) = HTTP_OK
        /\ IsJsonObject(BodyOf(c))
        /\ "choices" \in DOMAIN BodyOf(c).json.obj
        /\ BodyOf(c).json.obj.choices = EmptyList
        /\ IsRaised(calls[c].outcome)

\* Entry i of a tool-call list carries an arguments string that is no JSON.
MalformedArguments(entries, i) ==
    /\ IsDict(entries[i])
    /\ "function" \in DOMAIN entries[i].obj
    /\ IsDict(entries[i].obj.function)
    /\ "arguments" \in DOMAIN entries[i].obj.function.obj
    /\ IsStr(entries[i].obj.function.obj.arguments)
    /\ entries[i].obj.function.obj.arguments.str \in NotJson

\* The reply with the arguments of entry i replaced by the well-formed "{}".
Repaired(body, i) ==
    [ body EXCEPT !.json.obj.choices.list[1].obj.message.obj.tool_calls.list[i]
                    .obj.function.obj.arguments = PyStr("{}") ]

\* An entry that is a dict with a dict (or no) function whose arguments is a
\* string (or absent).
StringArguments(entry) ==
    /\ IsDict(entry)
    /\ IsDict(DictGet(entry, "function", EmptyDict))
    /\ IsStr(DictGet(DictGet(entry, "function", EmptyDict), "arguments", PyStr("{}")))

\* C2: an arguments string that is no valid JSON at entry i does not make
\* complete raise: the call ends as it would have with well-formed
\* arguments "{}" at i (every other tool call and field decoded alike),
\* ToolCall i has arguments {}, and when every entry carries string
\* arguments the call returns.
C2_MalformedArgumentsAbsorbed ==
    \A c \in CallIds :
        (Answered(c) /\ StatusOf(c) = HTTP_OK /\ HasToolCallList(BodyOf(c)))
        => \A i \in 1..Len(EntriesOf(BodyOf(c))) :
             MalformedArguments(EntriesOf(BodyOf(c)), i)
             => /\ calls[c].outcome =
                     ProviderHandleResponse(adapter, calls[c].model, HTTP_OK,
                                            Repaired(BodyOf(c), i))
                /\ Returned(c) =>
                     ProviderParseToolCalls(adapter, ChatResponseOf(c)).list[i].function.obj.arguments
                         = EmptyDict
                /\ (\A j \in 1..Len(EntriesOf(BodyOf(c))) :
                        StringArguments(EntriesOf(BodyOf(c))[j]))
                   => Returned(c)

C2_Witness ==
    \E c \in CallIds :
        /\ Returned(c)
        /\ HasToolCallList(BodyOf(c))
        /\ Len(EntriesOf(BodyOf(c))) = 2
        /\ MalformedArguments(EntriesOf(BodyOf(c)), 1)
        /\ ~MalformedArguments(EntriesOf(BodyOf(c)), 2)
        /\ ChatResponseOf(c).tool_calls.list[1].function.obj.arguments = EmptyDict
        /\ ChatResponseOf(c).tool_calls.list[2].function.obj.arguments
               = PyDict([city |-> PyStr("Paris")])

\* C3: in every returned ChatResponse every ToolCall's function.arguments
\* is a mapping, whatever the wire arguments were.
C3_ArgumentsAlwaysMapping ==
    \A c \in CallIds :
        Returned(c)
        => \A i \in 1..Len(ChatResponseOf(c).tool_calls.list) :
             IsDict(ChatResponseOf(c).tool_calls.list[i].function.obj.arguments)

\* C4: a returned ChatResponse's tool_calls is a sequence with one ToolCall
\* per entry of choices[0].message.tool_calls, in wire order, each with the
\* entry's id, type and function.name (None where the entry has none); it
\* is empty when the reply has no tool calls.
C4_ToolCallsMirrorWire ==
    \A c \in CallIds :
        Returned(c)
        => LET tool_calls == ProviderParseToolCalls(adapter, ChatResponseOf(c))
               message == MessageOf(BodyOf(c))
           IN  /\ IsList(tool_calls)
               /\ "tool_calls" \notin DOMAIN message.obj => tool_calls.list = <<>>
               /\ HasToolCallList(BodyOf(c)) =>
                    LET entries == EntriesOf(BodyOf(c))
                    IN  /\ Len(tool_calls.list) = Len(entries)
                        /\ \A i \in 1..Len(entries) :
                             /\ tool_calls.list[i].id = DictGet(entries[i], "id", PyNone)
                             /\ tool_calls.list[i].type = DictGet(entries[i], "type", PyNone)
                             /\ tool_calls.list[i].function.obj.name =
                                  DictGet(DictGet(entries[i], "function", EmptyDict),
                                          "name", PyNone)

C4_Witness ==
    \E c \in CallIds :
        /\ Returned(c)
        /\ HasToolCallList(BodyOf(c))
        /\ Len(ChatResponseOf(c).tool_calls.list) = 2
        /\ ChatResponseOf(c).tool_calls.list[1].function.obj.name = PyStr("get_time")
        /\ ChatResponseOf(c).tool_calls.list[1].id = PyStr("call_2")
        /\ ChatResponseOf(c).tool_calls.list[2].function.obj.name = PyStr("get_weather")
        /\ ChatResponseOf(c).tool_calls.list[2].id = PyStr("call_1")

\* C5: in every returned ChatResponse content is text, the wire content
\* when the vendor supplied text and "" otherwise, never None; role is
\* "assistant", id is "" and usage is {} when the reply does not carry them.
C5_ContentIsText ==
    \A c \in CallIds :
        Returned(c)
        => LET message == MessageOf(BodyOf(c))
               envelope == BodyOf(c).json
               wire == DictGet(message, "content", Absent)
           IN  /\ IsStr(ChatResponseOf(c).content)
               /\ ChatResponseOf(c).content = IF IsStr(wire) THEN wire ELSE PyStr("")
               /\ "role" \notin DOMAIN message.obj =>
                    ChatResponseOf(c).role = PyStr("assistant")
               /\ "id" \notin DOMAIN envelope.obj => ChatResponseOf(c).id = PyStr("")
               /\ "usage" \notin DOMAIN envelope.obj => ChatResponseOf(c).usage = EmptyDict

----------------------------------------------------------------------------
(* The payload: C6 - C8, under SpecEncode *)

\* The payload an invocation sent: the JSON body of its POST.
SentPayload(c) == posts[c][1].json

HasTools(request) == IsList(request.tools) /\ Len(request.tools.list) > 0

\* C6: the payload sent has a tools key exactly when the request's tool
\* sequence is non-empty; the key then holds one {type: "function",
\* function: {name, description, parameters}} entry per tool, in request
\* order; with an empty or unset tool sequence the key is absent.
C6_ToolsKeyIffTools ==
    \A c \in CallIds :
        Started(c)
        => LET request == calls[c].request
               payload == SentPayload(c)
           IN  /\ ("tools" \in DOMAIN payload.obj) <=> HasTools(request)
               /\ HasTools(request) =>
                    /\ IsList(payload.obj.tools)
                    /\ Len(payload.obj.tools.list) = Len(request.tools.list)
                    /\ \A i \in 1..Len(request.tools.list) :
                         payload.obj.tools.list[i] =
                           PyDict([ type |-> PyStr("function"),
                                    function |->
                                      PyDict([ name |-> request.tools.list[i].name,
                                               description |->
                                                 request.tools.list[i].description,
                                               parameters |->
                                                 request.tools.list[i].parameters ]) ])

C6_Witness ==
    \E c \in CallIds :
        /\ Started(c)
        /\ calls[c].request.tools = PyList(<<TimeTool, WeatherTool>>)
        /\ "tools" \in DOMAIN SentPayload(c).obj
        /\ SentPayload(c).obj.tools.list[1].obj.function.obj.name = PyStr("get_time")
        /\ SentPayload(c).obj.tools.list[2].obj.function.obj.name = PyStr("get_weather")

\* The value an override, else the request, gives for a key.
OverrideElseRequest(request, kwargs, key) ==
    IF key \in DOMAIN kwargs.obj THEN kwargs.obj[key] ELSE request[key]

\* The model the caller asked for: the override when given, else the
\* request's model when it names one, else the adapter's default.
EffectiveModel(request, kwargs) ==
    IF "model" \in DOMAIN kwargs.obj THEN kwargs.obj.model
    ELSE IF IsStr(request.model) /\ request.model.str /= "" THEN request.model
    ELSE adapter.default_model

\* C7: the effective model is the override's, else the request's, else the
\* adapter's default; temperature and max_tokens are the override's, else
\* the request's.  The effective model is the payload's model and the
\* returned ChatResponse's model, whatever model the wire reply names.
C7_EffectiveModelAndParameters ==
    \A c \in CallIds :
        Started(c)
        => LET request == calls[c].request
               kwargs == calls[c].kwargs
               payload == SentPayload(c)
           IN  /\ payload.obj.model = EffectiveModel(request, kwargs)
               /\ payload.obj.temperature =
                    OverrideElseRequest(request, kwargs, "temperature")
               /\ payload.obj.max_tokens =
                    OverrideElseRequest(request, kwargs, "max_tokens")
               /\ Returned(c) =>
                    ChatResponseOf(c).model = EffectiveModel(request, kwargs)

C7_Witness ==
    \E c \in CallIds :
        /\ Returned(c)
        /\ calls[c].kwargs = PyDict([model |-> PyStr("override-model")])
        /\ calls[c].request.model = PyStr("request-model")
        /\ BodyOf(c).json.obj.model = PyStr("wire-model")
        /\ SentPayload(c).obj.model = PyStr("override-model")
        /\ ChatResponseOf(c).model = PyStr("override-model")

\* Neither the overrides nor the request supply a value for the key.
Unsupplied(c, key) ==
    /\ key \notin DOMAIN calls[c].kwargs.obj
    /\ IsNone(calls[c].request[key])

\* C8 as stated: with no temperature (max_tokens) supplied, the payload
\* leaves the key unset.
C8_UnsetWhenUnsupplied ==
    \A c \in CallIds :
        Started(c)
        => \A key \in {"temperature", "max_tokens"} :
             Unsupplied(c, key) => key \notin DOMAIN SentPayload(c).obj

\* C8 amended: the payload always carries temperature and max_tokens; with
\* no value supplied the key holds None (JSON null), never a number.
C8_NullWhenUnsupplied ==
    \A c \in CallIds :
        Started(c)
        => \A key \in {"temperature", "max_tokens"} :
             /\ key \in DOMAIN SentPayload(c).obj
             /\ Unsupplied(c, key) => SentPayload(c).obj[key] = PyNone

C8_Witness ==
    \E c \in CallIds :
        /\ Started(c)
        /\ Unsupplied(c, "temperature")
        /\ ~Unsupplied(c, "max_tokens")
        /\ SentPayload(c).obj.temperature = PyNone
        /\ SentPayload(c).obj.max_tokens = PyNum(256)

----------------------------------------------------------------------------
(* Construction: C9, under SpecConstruct *)

\* The credential variable the specification names for each adapter.
CredentialVariable ==
    ( "deepseek" :> "DEEPSEEK_API_KEY"
      @@ "doubao" :> "DOUBAO_API_KEY"
      @@ "qwen" :> "QWEN_API_KEY" )

ConfigHasKey(config) ==
    /\ "api_key" \in DOMAIN config.obj
    /\ IsStr(config.obj.api_key)
    /\ config.obj.api_key.str /= ""

EnvironHasKey(environ, variable) ==
    variable \in DOMAIN environ /\ environ[variable] /= ""

\* C9: construction takes the config api_key when non-empty, else the
\* vendor's environment variable when non-empty; with neither it fails
\* with an error naming that variable, leaves no instance, and no POST
\* has been issued.
C9_ApiKeyResolution ==
    ctor.attempted
    => LET variable == CredentialVariable[ctor.vendor.name]
       IN  IF ConfigHasKey(ctor.config)
           THEN adapter.built /\ adapter.api_key = ctor.config.obj.api_key
           ELSE IF EnvironHasKey(ctor.environ, variable)
           THEN adapter.built /\ adapter.api_key = PyStr(ctor.environ[variable])
           ELSE /\ adapter = NoAdapter
                /\ IsRaised(ctor.outcome)
                /\ ctor.outcome.raised.type = "ValueError"
                /\ ctor.outcome.raised.variable = variable
                /\ posts = NoPosts
                /\ calls = NoCalls

C9_Witness ==
    /\ ctor.attempted
    /\ ctor.vendor.name = "qwen"
    /\ "api_key" \in DOMAIN ctor.config.obj
    /\ ctor.config.obj.api_key = PyStr("")
    /\ DOMAIN ctor.environ = EnvVars
    /\ ctor.environ["QWEN_API_KEY"] = ""
    /\ ctor.environ["DEEPSEEK_API_KEY"] /= ""
    /\ adapter = NoAdapter
    /\ ctor.outcome.raised.variable = "QWEN_API_KEY"

----------------------------------------------------------------------------
(* One POST per invocation: C10, under Spec *)

\* C10: every invocation of complete has issued exactly one POST, whether
\* it is in flight, returned or raised; n invocations have issued n POSTs.
C10_OnePostPerInvocation ==
    \A c \in CallIds :
        Len(posts[c]) = IF Started(c) THEN 1 ELSE 0

C10_Witness ==
    \E c, d \in CallIds :
        /\ c /= d
        /\ calls[c].pc = "done" /\ calls[d].pc = "done"
        /\ calls[c].request = calls[d].request
        /\ calls[c].kwargs = calls[d].kwargs
        /\ Returned(c)
        /\ IsRaised(calls[d].outcome)
        /\ Len(posts[c]) = 1 /\ Len(posts[d]) = 1

----------------------------------------------------------------------------
(* The status check: C11 and C14, under SpecDecode *)

\* The failure complete raises at the status check.
IsApiError(outcome, status_code, body) ==
    /\ IsRaised(outcome)
    /\ DOMAIN outcome.raised = {"type", "vendor", "what", "status_code", "text"}
    /\ outcome.raised.type = "Exception"
    /\ outcome.raised.what = "API error"
    /\ outcome.raised.status_code = status_code
    /\ outcome.raised.text = body

\* C11: a reply whose status is not 2xx ends complete in one failure that
\* carries the status code and the raw body text; no ChatResponse is
\* returned and the body is not decoded (a body that is no JSON, or that
\* would decode to a response, fails the same way).
C11_ErrorStatusFails ==
    \A c \in CallIds :
        (Answered(c) /\ StatusOf(c) \notin 200..299)
        => /\ ~Returned(c)
           /\ IsApiError(calls[c].outcome, StatusOf(c), BodyOf(c))
           /\ calls[c].outcome.raised.vendor = adapter.vendor.display

C11_Witness ==
    \E c \in CallIds :
        /\ Answered(c)
        /\ StatusOf(c) = 429
        /\ BodyOf(c) = ErrorBody
        /\ IsApiError(calls[c].outcome, 429, ErrorBody)

\* C14: complete returns a ChatResponse only for status 200 with a
\* non-empty choices; every other status, 201 and 204 included, raises the
\* API error before the body is parsed.
C14_OnlyStatus200Returns ==
    \A c \in CallIds :
        /\ Returned(c) =>
             /\ StatusOf(c) = 200
             /\ HasFirstChoice(BodyOf(c))
        /\ (Answered(c) /\ StatusOf(c) /= 200) =>
             IsApiError(calls[c].outcome, StatusOf(c), BodyOf(c))

C14_Witness ==
    \E c \in CallIds :
        /\ Answered(c)
        /\ StatusOf(c) = 201
        /\ BodyOf(c) = SimpleBody
        /\ IsApiError(calls[c].outcome, 201, SimpleBody)

----------------------------------------------------------------------------
(* The three adapters side by side: C12, under SpecVendors *)

VendorRequests ==
    SmallRequests
    \cup { [PlainRequest EXCEPT !.tools = PyList(<<TimeTool, WeatherTool>>),
                                !.temperature = PyNum(7)],
           [PlainRequest EXCEPT !.model = PyStr(""), !.tools = EmptyList,
                                !.messages = PyList(<<SystemMessage, UserMessage>>)] }

VendorBodies ==
    SmallBodies \cup ChoicesBodies \cup OtherBodies
    \cup { WireReply(PyStr("x1"), Absent,
                     PyList(<<WireChoice(WireMessage(PyStr("assistant"), c, t))>>),
                     WireUsage) :
             c \in {PyNone, PyStr("4")},
             t \in {Absent, PyNone} \cup {PyList(<<e>>) : e \in WireToolCalls} }

\* One call on an adapter of any vendor, with or without a configured
\* default model.
InitVendors ==
    \E vendor \in Vendors,
       config \in {KeyConfig, PyDict([ api_key |-> PyStr("sk-config"),
                                       default_model |-> PyStr("configured-model") ])} :
        Built(vendor, config, NoEnviron)

NextVendors ==
    \/ \E request \in VendorRequests, kwargs \in SmallKwargs : Invoke(1, request, kwargs)
    \/ \E status_code \in {200, 201, 500}, body \in VendorBodies :
         Respond(1, status_code, body)

SpecVendors == InitVendors /\ [][NextVendors]_vars

\* The caller, or the configuration, names the model.
ModelGiven(c) ==
    \/ "model" \in DOMAIN calls[c].kwargs.obj
    \/ Truthy(calls[c].request.model)
    \/ "default_model" \in DOMAIN ctor.config.obj

WithoutModel(payload) == [payload EXCEPT !.obj.model = PyNone]

\* An exception with the vendor name taken out of its text.
WithoutVendor(raised) ==
    IF "vendor" \in DOMAIN raised THEN [raised EXCEPT !.vendor = ""] ELSE raised

\* Two outcomes of complete that are the same up to the vendor name in an
\* error and the model echoed in a response.
SameOutcome(mine, theirs) ==
    /\ IsRaised(mine) <=> IsRaised(theirs)
    /\ IsRaised(mine) => WithoutVendor(mine.raised) = WithoutVendor(theirs.raised)
    /\ ~IsRaised(mine) =>
         [mine.ok EXCEPT !.model = PyNone] = [theirs.ok EXCEPT !.model = PyNone]

\* C12: for the request, overrides and reply of a call, the code of each
\* of the three adapters (on an instance built from the same config) builds
\* the same payload apart from the default model, sends the same headers,
\* and ends in the same outcome: the same ChatResponse, or a failure at
\* the same step that differs in the vendor name alone.
C12_AdaptersEquivalent ==
    \A c \in CallIds :
        Started(c)
        => \A vendor \in Vendors :
             LET other == NewAdapter(vendor, ctor.config, ctor.environ).ok
                 theirs == ProviderPreparePost(other, calls[c].request, calls[c].kwargs)
             IN  /\ WithoutModel(theirs.payload) = WithoutModel(calls[c].payload)
                 /\ theirs.post.headers = posts[c][1].headers
                 /\ ModelGiven(c) => theirs.payload = calls[c].payload
                 /\ ~ModelGiven(c) => theirs.model = PyStr(vendor.default_model)
                 /\ Answered(c) =>
                      LET outcome == ProviderHandleResponse(other, theirs.model,
                                                            StatusOf(c), BodyOf(c))
                      IN  /\ SameOutcome(calls[c].outcome, outcome)
                          /\ (ModelGiven(c) /\ Returned(c)) => outcome = calls[c].outcome
                          /\ (IsRaised(outcome) /\ "vendor" \in DOMAIN outcome.raised)
                             => outcome.raised.vendor = vendor.display

C12_Witness ==
    \E c \in CallIds :
        /\ adapter.name = "qwen"
        /\ Returned(c)
        /\ ~ModelGiven(c)
        /\ Len(ChatResponseOf(c).tool_calls.list) = 1
        /\ ChatResponseOf(c).model = PyStr("qwen2.5-7b-instruct")
        /\ LET other == NewAdapter(DeepSeek, ctor.config, ctor.environ).ok
               theirs == ProviderPreparePost(other, calls[c].request, calls[c].kwargs)
               outcome == ProviderHandleResponse(other, theirs.model,
                                                 StatusOf(c), BodyOf(c))
           IN  /\ outcome.ok.model = PyStr("deepseek-chat")
               /\ outcome.ok.tool_calls = ChatResponseOf(c).tool_calls
               /\ outcome.ok.content = ChatResponseOf(c).content

----------------------------------------------------------------------------
(* Calls in flight together on one instance: C13, under Spec *)

\* The instance as __init__ left it.
AsConstructed == NewAdapter(ctor.vendor, ctor.config, ctor.environ).ok

TransportFailed(c) == calls[c].pc = "done" /\ "failed" \in DOMAIN calls[c].response

\* Every call is where the same call, run alone on the instance as it was
\* constructed, would be: same payload, same POST, same outcome for the
\* same reply.
RunAlone ==
    adapter.built
    => /\ adapter = AsConstructed
       /\ \A c \in CallIds :
            Started(c)
            => LET prepared == ProviderPreparePost(AsConstructed, calls[c].request,
                                                   calls[c].kwargs)
               IN  /\ calls[c].payload = prepared.payload
                   /\ posts[c] = <<prepared.post>>
                   /\ Answered(c)
                      => calls[c].outcome =
                           ProviderHandleResponse(AsConstructed, prepared.model,
                                                  StatusOf(c), BodyOf(c))
                   /\ TransportFailed(c)
                      => calls[c].outcome = Raise([type |-> calls[c].response.failed])

\* C13: calls to complete that overlap on one instance are independent.
\* No step of a call writes the instance (api_key, base_url, default_model,
\* config), none changes the ChatRequest or the overrides it was given,
\* a step of one call leaves every other call as it was, and each call's
\* payload and outcome are those of the same call run alone.
C13_CallsIndependent ==
    [][ /\ adapter.built => adapter' = adapter
        /\ \A c \in CallIds :
             /\ Started(c) => /\ calls'[c].request = calls[c].request
                              /\ calls'[c].kwargs = calls[c].kwargs
             /\ calls'[c] /= calls[c]
                => \A d \in CallIds \ {c} : calls'[d] = calls[d] /\ posts'[d] = posts[d]
        /\ RunAlone' ]_vars

C13_Witness ==
    \E c, d \in CallIds :
        /\ c /= d
        /\ Returned(c)
        /\ calls[d].pc = "awaiting"
        /\ calls[c].payload.obj.model = PyStr("override-model")
        /\ calls[d].payload.obj.model = adapter.default_model
        /\ adapter.default_model = PyStr(adapter.vendor.default_model)
        /\ RunAlone

====
